---------------------------- MODULE Spec2Model ----------------------------
(***************************************************************************)
(* Roomba MQTT controller (src/Roomba_MQTT.ino, the revision that starts   *)
(* at line 1017): the sensor poll, the run-status inference, the delta     *)
(* filter and the device commands, as a state machine.                     *)
(*                                                                         *)
(* The firmware is single threaded: loop() runs one handler at a time, so  *)
(* every handler is one atomic action.  Sequential code is written as      *)
(* operators on a machine record m = [obs, rep, now, last, out, pub]:      *)
(*   obs  roombaDataObserved          rep  roombaDataReported              *)
(*   now  millis()                    last settings.sensors.lastRetrieved  *)
(*   out  what the handler did to the device, in order: <<kind, value, t>> *)
(*        with kind "tx" (Serial1.write) or "pin" (digitalWrite(wakePin))  *)
(*   pub  what the handler published, in order: <<topic, payload>>         *)
(***************************************************************************)
EXTENDS Integers, Sequences, FiniteSets, TLC

VARIABLES
    roombaDataObserved,   \* struct structRoombaData roombaDataObserved
    roombaDataReported,   \* struct structRoombaData roombaDataReported
    sensorsLastRetrieved, \* settings.sensors.lastRetrieved
    now,                  \* millis()
    mqttConnected,        \* mqttClient.connected()
    charSigned,           \* whether plain char is signed in this build
    lastOp,               \* the handler that ran last
    rx,                   \* what the last handler received: the Serial buffer
                          \* a poll found, or the payload of a command
    out,                  \* device actuation of the last handler
    published,            \* MQTT messages of the last handler
    commandsHandled,      \* device commands handled so far
    pre,                  \* the Snapshot of the state the last handler began in
    eeprom,               \* the EEPROM: the byte at each address written
    deviceIsProvisioned   \* settings.deviceIsProvisioned

vars == <<roombaDataObserved, roombaDataReported, sensorsLastRetrieved, now,
          mqttConnected, charSigned, lastOp, rx, out, published,
          commandsHandled, pre, eeprom, deviceIsProvisioned>>

---------------------------------------------------------------------------
(* Program constants *)

SLEEPING == 0
CLEANING == 1
IDLING == 2

sensorsUpdateFrequency == 2000
minimumReportingDeltaVoltage == 200
minimumReportingDeltaCurrent == 512
minimumReportingDeltaTemperature == 2
minimumReportingDeltaCharge == 50
minimumReportingDeltaPercentRemaining == 1
FrameLength == 26
EEPROMLength == 512
EEPROMDataBegin == 10
ceilingValue == 65535
SetupDelay == 1000

(* Bounds of the model *)
MaxTime == 5500
MaxCommands == 2

---------------------------------------------------------------------------
(* Fixed-width integer conversions of the C++ build *)

ToUint16(x) == x % 65536
ToInt16(x) == LET u == x % 65536 IN IF u >= 32768 THEN u - 65536 ELSE u
\* a - b in unsigned long.  millis() never runs backwards and stays far below
\* 2^32 here, so the difference does not wrap (an a < b would stop the check).
ULongSub(a, b) == CASE a >= b -> a - b
Abs(x) == IF x > 0 THEN x ELSE -x

\* The value of a plain char that holds byte b: the build decides its signedness.
CharValue(b) == IF charSigned /\ b >= 128 THEN b - 256 ELSE b

\* tmpBuffer[i] of the C array is element i+1 of the sequence.
Buf(buffer, i) == buffer[i + 1]

---------------------------------------------------------------------------
(* The machine record and the primitives the handlers are built from *)

Machine == [obs |-> roombaDataObserved, rep |-> roombaDataReported,
            now |-> now, last |-> sensorsLastRetrieved,
            out |-> <<>>, pub |-> <<>>]

\* Sequencing: Op applied to the machine that m evaluates to ("m; Op").
Then(m, Op(_)) == CHOOSE r \in {Op(x) : x \in {m}} : TRUE

\* delay(ms): millis() moves on by ms.
delay(m, ms) == [m EXCEPT !.now = @ + ms]

\* Serial1.write(b), logged with the time of the write
serialWrite(m, b) == Then(m, LAMBDA x : [x EXCEPT !.out = Append(@, <<"tx", b, x.now>>)])

\* digitalWrite(wakePin, level), LOW = 0 and HIGH = 1
digitalWrite(m, level) ==
    Then(m, LAMBDA x : [x EXCEPT !.out = Append(@, <<"pin", level, x.now>>)])

\* Serial1.write(b); delay(gap); for every b of bytes, in order.
RECURSIVE writeEach(_, _, _)
writeEach(m, bytes, gap) ==
    IF bytes = <<>> THEN m
    ELSE Then(delay(serialWrite(m, Head(bytes)), gap),
              LAMBDA x : writeEach(x, Tail(bytes), gap))

publishMQTT(m, topic, payload) == [m EXCEPT !.pub = Append(@, <<topic, payload>>)]

runStatusToString(obs) ==
    CASE obs.runStatus = 0 -> "SLEEPING"
      [] obs.runStatus = 1 -> "CLEANING"
      [] obs.runStatus = 2 -> "IDLING"
      [] OTHER -> "UNKNOWN"

\* setRunStatus with "+=" for the observed status
setRunStatus_adds(m, runStatus) ==
    Then(m, LAMBDA x :
        IF runStatus # x.rep.runStatus
        THEN Then([x EXCEPT !.rep.runStatus = runStatus, !.obs.runStatus = @ + runStatus],
                  LAMBDA y : publishMQTT(y, "sensor/runStatus", runStatusToString(y.obs)))
        ELSE x)

\* setRunStatus without the test for a change
setRunStatus_always(m, runStatus) ==
    Then(m, LAMBDA x :
        Then([x EXCEPT !.rep.runStatus = runStatus, !.obs.runStatus = runStatus],
             LAMBDA y : publishMQTT(y, "sensor/runStatus", runStatusToString(y.obs))))

\* setRunStatus that leaves roombaDataReported.runStatus alone
setRunStatus_observedOnly(m, runStatus) ==
    Then(m, LAMBDA x :
        IF runStatus # x.rep.runStatus
        THEN Then([x EXCEPT !.obs.runStatus = runStatus],
                  LAMBDA y : publishMQTT(y, "sensor/runStatus", runStatusToString(y.obs)))
        ELSE x)

setRunStatus(m, runStatus) ==
    Then(m, LAMBDA x :
        IF runStatus # x.rep.runStatus
        THEN Then([x EXCEPT !.rep.runStatus = runStatus, !.obs.runStatus = runStatus],
                  LAMBDA y : publishMQTT(y, "sensor/runStatus", runStatusToString(y.obs)))
        ELSE x)

---------------------------------------------------------------------------
(* Frame decoding *)

\* uint16_t returnValue = byteHigh; returnValue = returnValue << 8;
\* returnValue |= byteLow & 0x00FF
\* (the low eight bits are clear after the shift, so the OR is an addition)
combineBytesToUnsignedInt(byteHigh, byteLow) ==
    ToUint16(ToUint16(CharValue(byteHigh)) * 256) + (CharValue(byteLow) % 256)

\* combineBytesToSignedInt without "& 0x00FF": a negative low byte sets the
\* high eight bits
combineBytesToSignedInt_unmasked(byteHigh, byteLow) ==
    IF CharValue(byteLow) < 0
    THEN CharValue(byteLow)
    ELSE ToInt16((ToInt16(ToInt16(CharValue(byteHigh)) * 256) % 65536)
                 + CharValue(byteLow))

\* int16_t returnValue = byteHigh; returnValue = returnValue << 8;
\* returnValue |= byteLow & 0x00FF
combineBytesToSignedInt(byteHigh, byteLow) ==
    ToInt16((ToInt16(ToInt16(CharValue(byteHigh)) * 256) % 65536)
            + (CharValue(byteLow) % 256))

\* the switch without "case 5"
chargingStateOf_noFault(b) ==
    CASE CharValue(b) = 0 -> "NOT_CHARGING"
      [] CharValue(b) = 1 -> "CHARGING_RECONDITIONING"
      [] CharValue(b) = 2 -> "CHARGING_FULL"
      [] CharValue(b) = 3 -> "CHARGING_TRICKLE"
      [] CharValue(b) = 4 -> "WAITING"
      [] OTHER -> "UNKNOWN"

\* switch(tmpBuffer[3])
chargingStateOf(b) ==
    CASE CharValue(b) = 0 -> "NOT_CHARGING"
      [] CharValue(b) = 1 -> "CHARGING_RECONDITIONING"
      [] CharValue(b) = 2 -> "CHARGING_FULL"
      [] CharValue(b) = 3 -> "CHARGING_TRICKLE"
      [] CharValue(b) = 4 -> "WAITING"
      [] CharValue(b) = 5 -> "FAULT"
      [] OTHER -> "UNKNOWN"

\* The assignments of getRoombaData that store the fields of tmpBuffer.
decodeFrame(obs, tmpBuffer) ==
    [obs EXCEPT
        !.chargingState = chargingStateOf(Buf(tmpBuffer, 3)),
        !.voltage = combineBytesToUnsignedInt(Buf(tmpBuffer, 4), Buf(tmpBuffer, 5)),
        !.current = combineBytesToSignedInt(Buf(tmpBuffer, 6), Buf(tmpBuffer, 7)),
        !.temperature = CharValue(Buf(tmpBuffer, 8)),
        !.charge = combineBytesToUnsignedInt(Buf(tmpBuffer, 9), Buf(tmpBuffer, 10)),
        !.capacity = combineBytesToUnsignedInt(Buf(tmpBuffer, 11), Buf(tmpBuffer, 12)),
        !.rightEncoder = ToUint16(@
                          + combineBytesToUnsignedInt(Buf(tmpBuffer, 13), Buf(tmpBuffer, 14))),
        !.leftEncoder = ToUint16(@
                          + combineBytesToUnsignedInt(Buf(tmpBuffer, 15), Buf(tmpBuffer, 16))),
        !.leftWheel = ToUint16(combineBytesToSignedInt(Buf(tmpBuffer, 17), Buf(tmpBuffer, 18))),
        !.rightWheel = ToUint16(combineBytesToSignedInt(Buf(tmpBuffer, 19), Buf(tmpBuffer, 20))),
        !.mainBrush = ToUint16(combineBytesToSignedInt(Buf(tmpBuffer, 21), Buf(tmpBuffer, 22))),
        !.sideBrush = ToUint16(combineBytesToSignedInt(Buf(tmpBuffer, 23), Buf(tmpBuffer, 24))),
        !.stasis = CharValue(Buf(tmpBuffer, 25))]

---------------------------------------------------------------------------
(* Telemetry delta filter *)

\* String::toInt of percentRemaining.  No statement of this revision assigns
\* the field, so it is always the empty String, which converts to 0 (any
\* other String would stop the check).
toInt(str) == CASE str = "" -> 0

\* reportVoltage with ">=" for ">"
reportVoltage_atDelta(m) ==
    Then(m, LAMBDA x :
        IF Abs(x.obs.voltage - x.rep.voltage) >= minimumReportingDeltaVoltage
        THEN publishMQTT([x EXCEPT !.rep.voltage = x.obs.voltage],
                         "sensor/batteryVoltage", ToString(x.obs.voltage))
        ELSE x)

\* reportVoltage that compares with the previous observation: the observed
\* value is stored whether or not it is published
reportVoltage_drifts(m) ==
    Then(m, LAMBDA x :
        IF Abs(x.obs.voltage - x.rep.voltage) > minimumReportingDeltaVoltage
        THEN publishMQTT([x EXCEPT !.rep.voltage = x.obs.voltage],
                         "sensor/batteryVoltage", ToString(x.obs.voltage))
        ELSE [x EXCEPT !.rep.voltage = x.obs.voltage])

reportVoltage(m) ==
    Then(m, LAMBDA x :
        IF Abs(x.obs.voltage - x.rep.voltage) > minimumReportingDeltaVoltage
        THEN publishMQTT([x EXCEPT !.rep.voltage = x.obs.voltage],
                         "sensor/batteryVoltage", ToString(x.obs.voltage))
        ELSE x)

\* reportCurrent that stores the observed value whether or not it publishes
reportCurrent_drifts(m) ==
    Then(m, LAMBDA x :
        IF Abs(x.obs.current - x.rep.current) > minimumReportingDeltaCurrent
        THEN publishMQTT([x EXCEPT !.rep.current = x.obs.current],
                         "sensor/batteryCurrent", ToString(x.obs.current))
        ELSE [x EXCEPT !.rep.current = x.obs.current])

reportCurrent(m) ==
    Then(m, LAMBDA x :
        IF Abs(x.obs.current - x.rep.current) > minimumReportingDeltaCurrent
        THEN publishMQTT([x EXCEPT !.rep.current = x.obs.current],
                         "sensor/batteryCurrent", ToString(x.obs.current))
        ELSE x)

\* reportTemperature that publishes without storing the value
reportTemperature_unsaved(m) ==
    Then(m, LAMBDA x :
        IF Abs(x.obs.temperature - x.rep.temperature) > minimumReportingDeltaTemperature
        THEN publishMQTT(x, "sensor/batteryTemperature", ToString(x.obs.temperature))
        ELSE x)

reportTemperature(m) ==
    Then(m, LAMBDA x :
        IF Abs(x.obs.temperature - x.rep.temperature) > minimumReportingDeltaTemperature
        THEN publishMQTT([x EXCEPT !.rep.temperature = x.obs.temperature],
                         "sensor/batteryTemperature", ToString(x.obs.temperature))
        ELSE x)

\* reportCharge with twice the delta
reportCharge_wide(m) ==
    Then(m, LAMBDA x :
        IF Abs(x.obs.charge - x.rep.charge) > 2 * minimumReportingDeltaCharge
        THEN publishMQTT([x EXCEPT !.rep.charge = x.obs.charge],
                         "sensor/batteryCharge", ToString(x.obs.charge))
        ELSE x)

reportCharge(m) ==
    Then(m, LAMBDA x :
        IF Abs(x.obs.charge - x.rep.charge) > minimumReportingDeltaCharge
        THEN publishMQTT([x EXCEPT !.rep.charge = x.obs.charge],
                         "sensor/batteryCharge", ToString(x.obs.charge))
        ELSE x)

reportPercentRemaining(m) ==
    Then(m, LAMBDA x :
        IF Abs(toInt(x.obs.percentRemaining) - toInt(x.rep.percentRemaining))
             > minimumReportingDeltaPercentRemaining
        THEN publishMQTT([x EXCEPT !.rep.percentRemaining = x.obs.percentRemaining],
                         "sensor/batteryPercentage", x.obs.percentRemaining)
        ELSE x)

reportChargingState(m) ==
    Then(m, LAMBDA x :
        IF x.obs.chargingState # x.rep.chargingState
        THEN publishMQTT([x EXCEPT !.rep.chargingState = x.obs.chargingState],
                         "sensor/chargingState", x.obs.chargingState)
        ELSE x)

reportRoombaSensorChanges(m) ==
    reportChargingState(reportPercentRemaining(reportCharge(
        reportTemperature(reportCurrent(reportVoltage(m))))))

---------------------------------------------------------------------------
(* Run-status inference *)

Vote(cond) == IF cond THEN 1 ELSE 0

\* voteForCleaningMode as toggleCleaningMode counts it from roombaDataObserved
voteForCleaningMode(obs) ==
      Vote(obs.chargingState = "NOT_CHARGING" \/ obs.chargingState = "WAITING")
    + Vote(obs.current < -500)
    + Vote(obs.leftWheel > 100)
    + Vote(obs.rightWheel > 100)
    + Vote(obs.mainBrush > 100)
    + Vote(obs.sideBrush > 100)
    + Vote(obs.stasis = 1)

\* beginCleaningMode that copies the start time into the odometer
beginCleaningMode_copies(m) ==
    Then(m, LAMBDA x :
        Then(setRunStatus([x EXCEPT !.obs.startTime = x.now,
                                    !.obs.endTime = x.now,
                                    !.obs.runTime = 0], CLEANING),
             LAMBDA y : [y EXCEPT !.obs.odometer = y.obs.startTime]))

beginCleaningMode(m) ==
    Then(m, LAMBDA x :
        Then(setRunStatus([x EXCEPT !.obs.startTime = x.now,
                                    !.obs.endTime = x.now,
                                    !.obs.runTime = 0], CLEANING),
             LAMBDA y : [y EXCEPT !.obs.odometer = 0]))

\* endCleaningMode that does not publish the run time
endCleaningMode_silent(m) ==
    Then(m, LAMBDA x :
        Then(setRunStatus([x EXCEPT !.obs.endTime = x.now,
                                    !.obs.runTime = ULongSub(x.now, x.obs.startTime)],
                          IDLING),
             LAMBDA y : publishMQTT(y, "sensor/odometer", ToString(y.obs.odometer))))

endCleaningMode(m) ==
    Then(m, LAMBDA x :
        Then(setRunStatus([x EXCEPT !.obs.endTime = x.now,
                                    !.obs.runTime = ULongSub(x.now, x.obs.startTime)],
                          IDLING),
             LAMBDA y : publishMQTT(
                 publishMQTT(y, "sensor/runTime", ToString(y.obs.runTime)),
                 "sensor/odometer", ToString(y.obs.odometer))))

\* the first test of toggleCleaningMode with ">" for ">="
beginIfVoted_over(m, votes) ==
    IF votes > 4 /\ m.obs.runStatus # CLEANING THEN beginCleaningMode(m) ELSE m

\* the first test of toggleCleaningMode with a threshold of 3
beginIfVoted_three(m, votes) ==
    IF votes >= 3 /\ m.obs.runStatus # CLEANING THEN beginCleaningMode(m) ELSE m

\* the second test of toggleCleaningMode with "<" for "<="
endIfVoted_under(m, votes) ==
    IF votes < 1 /\ m.obs.runStatus = CLEANING THEN endCleaningMode(m) ELSE m

\* The two tests of toggleCleaningMode, in order: the second reads the run
\* status the first may have set.
beginIfVoted(m, votes) ==
    IF votes >= 4 /\ m.obs.runStatus # CLEANING THEN beginCleaningMode(m) ELSE m

endIfVoted(m, votes) ==
    IF votes <= 1 /\ m.obs.runStatus = CLEANING THEN endCleaningMode(m) ELSE m

toggleCleaningMode(m) ==
    Then(m, LAMBDA x :
        Then(beginIfVoted(x, voteForCleaningMode(x.obs)),
             LAMBDA y : endIfVoted(y, voteForCleaningMode(x.obs))))

---------------------------------------------------------------------------
(* The odometer: wheel encoders to millimetres *)

\* broadcastLine of a computed value, logged as <<label, value, t>>
broadcastLine(m, label, value) ==
    Then(m, LAMBDA x : [x EXCEPT !.out = Append(@, <<label, value, x.now>>)])

\* The operands are promoted to int, so neither the sum in the test nor the
\* two expressions wrap; the result is stored in a uint16_t.
computeEncoderDistance(currentValue, previousValue) ==
    IF previousValue + currentValue > ceilingValue
    THEN ToUint16((ceilingValue - previousValue) + currentValue)
    ELSE ToUint16(currentValue - previousValue)

\* (distanceLeftEncoder + distanceRightEncoder) / 2: a division of ints,
\* converted to float afterwards.
averageDistanceOf(distanceLeftEncoder, distanceRightEncoder) ==
    (distanceLeftEncoder + distanceRightEncoder) \div 2

\* pi * wheelRadius / wheelEncodersPerRevolution = 3.14159265359 * 69 / 508.8
\* = 0.426041... millimetres per tick, in millionths.
micrometresPerKiloTick == 426041

\* ticks * (pi * wheelRadius / wheelEncodersPerRevolution) in thousandths of a
\* millimetre, the product split so that no term leaves 32 bits.
milliMillimetres(ticks) ==
    (ticks \div 1000) * micrometresPerKiloTick
        + ((ticks % 1000) * micrometresPerKiloTick) \div 1000

\* round(x) of a non-negative x given in thousandths: (long)(x + 0.5)
round(thousandths) == (thousandths + 500) \div 1000

observeEncoders(m, leftEncoder, rightEncoder) ==
    Then(broadcastLine(m, "distanceLeftEncoder",
                       computeEncoderDistance(leftEncoder, m.obs.leftEncoder)),
         LAMBDA x :
    Then(broadcastLine(x, "distanceRightEncoder",
                       computeEncoderDistance(rightEncoder, x.obs.rightEncoder)),
         LAMBDA y :
            [y EXCEPT
                !.obs.odometer =
                    @ + round(milliMillimetres(
                            averageDistanceOf(y.out[Len(y.out) - 1][2],
                                              y.out[Len(y.out)][2]))),
                !.obs.leftEncoder = leftEncoder,
                !.obs.rightEncoder = rightEncoder]))

---------------------------------------------------------------------------
(* The sensor poll *)

\* The query getRoombaData writes: opcode 149, the packet count, the packet ids.
QueryBytes == <<128, 149, 15, 15, 19, 21, 22, 23, 24, 25, 26, 43, 44, 54, 55, 56, 57>>

sendQuery(m) == delay(serialWrite(writeEach(m, QueryBytes, 50), 58), 250)

\* the wrong-length branch without setRunStatus(SLEEPING)
skipIteration_keeps(m) ==
    Then(m, LAMBDA x : [x EXCEPT !.last = x.now])

\* the frame branch without setRunStatus(IDLING)
readFrame_noIdle(m, tmpBuffer) ==
    Then(m, LAMBDA y : toggleCleaningMode(reportRoombaSensorChanges(
        [y EXCEPT !.obs = decodeFrame(y.obs, tmpBuffer), !.last = y.now])))

\* getRoombaData that closes a running cycle before it sleeps
skipIteration_ends(m) ==
    Then(m, LAMBDA x :
        setRunStatus(IF x.obs.runStatus = CLEANING
                     THEN endCleaningMode([x EXCEPT !.last = x.now])
                     ELSE [x EXCEPT !.last = x.now],
                     SLEEPING))

\* getRoombaData when Serial.available() != 26
skipIteration(m) ==
    Then(m, LAMBDA x : setRunStatus([x EXCEPT !.last = x.now], SLEEPING))

\* getRoombaData when the 26 bytes are there
readFrame(m, tmpBuffer) ==
    Then(m, LAMBDA x :
        Then(IF x.obs.runStatus # CLEANING THEN setRunStatus(x, IDLING) ELSE x,
             LAMBDA y : toggleCleaningMode(reportRoombaSensorChanges(
                 [y EXCEPT !.obs = decodeFrame(y.obs, tmpBuffer), !.last = y.now]))))

\* available is the content of the Serial receive buffer when the poll looks
\* at it: what the device answered, after whatever an earlier poll left unread.
getRoombaData(m, available) ==
    IF Len(available) # FrameLength
    THEN skipIteration(sendQuery(m))
    ELSE readFrame(sendQuery(m), available)

healthHeader(m) ==
    Then(m, LAMBDA x :
        publishMQTT(publishMQTT(publishMQTT(publishMQTT(publishMQTT(x,
            "client/status", "OK"),
            "client/uptime", ToString(x.now)),
            "client/ip", "localIP"),
            "client/firmware", "X"),
            "client/deviceName", "deviceName"))

healthSensors(m) ==
    Then(m, LAMBDA x :
        publishMQTT(publishMQTT(publishMQTT(publishMQTT(publishMQTT(publishMQTT(
        publishMQTT(publishMQTT(x,
            "sensor/chargingState", x.rep.chargingState),
            "sensor/batteryVoltage", ToString(x.rep.voltage)),
            "sensor/batteryTemperature", ToString(x.rep.temperature)),
            "sensor/batteryCapacity", ToString(x.rep.capacity)),
            "sensor/batteryCharge", ToString(x.rep.charge)),
            "sensor/batteryPercentage", x.rep.percentRemaining),
            "sensor/batteryCurrent", ToString(x.rep.current)),
            "sensor/runStatus", runStatusToString(x.obs)))

handleHealth(m, available) ==
    healthSensors(getRoombaData(healthHeader(m), available))

---------------------------------------------------------------------------
(* Device commands *)

\* commandRoombaWake without the test for SLEEPING
commandRoombaWake_always(m) ==
    Then(m, LAMBDA x :
        setRunStatus(digitalWrite(delay(digitalWrite(x, 0), 100), 1), IDLING))

commandRoombaWake(m) ==
    Then(m, LAMBDA x :
        IF x.obs.runStatus # SLEEPING THEN x
        ELSE setRunStatus(digitalWrite(delay(digitalWrite(x, 0), 100), 1), IDLING))

wakeIfSleeping(m) ==
    Then(m, LAMBDA x : IF x.obs.runStatus = SLEEPING THEN commandRoombaWake(x) ELSE x)

\* commandRoombaClean that begins the cleaning cycle itself
commandRoombaClean_begins(m) ==
    beginCleaningMode(writeEach(wakeIfSleeping(m), <<128, 131, 135>>, 50))

commandRoombaClean(m) == writeEach(wakeIfSleeping(m), <<128, 131, 135>>, 50)

\* commandRoombaDock that sets the run status itself
commandRoombaDock_begins(m) ==
    beginCleaningMode(writeEach(wakeIfSleeping(m), <<128, 131, 143>>, 50))

\* commandRoombaDock that wakes the device after the command bytes
commandRoombaDock_late(m) ==
    wakeIfSleeping(writeEach(m, <<128, 131, 143>>, 50))

commandRoombaDock(m) == writeEach(wakeIfSleeping(m), <<128, 131, 143>>, 50)

\* commandRoombaStop without the test for CLEANING
commandRoombaStop_always(m) ==
    writeEach(m, <<128, 131, 133>>, 50)

commandRoombaStop(m) ==
    Then(m, LAMBDA x :
        IF x.obs.runStatus # CLEANING THEN x
        ELSE writeEach(x, <<128, 131, 133>>, 50))

\* commandRoombaResetSchedule with a loop that stops one short
commandRoombaResetSchedule_short(m) ==
    writeEach(delay(serialWrite(delay(serialWrite(m, 128), 50), 167), 10),
              [i \in 1..14 |-> 0], 10)

commandRoombaResetSchedule(m) ==
    writeEach(delay(serialWrite(delay(serialWrite(m, 128), 50), 167), 10),
              [i \in 1..15 |-> 0], 10)

commandRoombaReboot(m) ==
    delay(serialWrite(delay(serialWrite(m, 128), 50), 7), 2000)

---------------------------------------------------------------------------
(* The set-day-time command.  A String is the sequence of its characters. *)

UpperCase == <<"A", "B", "C", "D", "E", "F", "G", "H", "I", "J", "K", "L", "M",
               "N", "O", "P", "Q", "R", "S", "T", "U", "V", "W", "X", "Y", "Z">>
LowerCase == <<"a", "b", "c", "d", "e", "f", "g", "h", "i", "j", "k", "l", "m",
               "n", "o", "p", "q", "r", "s", "t", "u", "v", "w", "x", "y", "z">>
DecimalDigits == <<"0", "1", "2", "3", "4", "5", "6", "7", "8", "9">>

\* String::toLowerCase
toLowerCase(str) ==
    [i \in DOMAIN str |->
        IF \E k \in DOMAIN UpperCase : UpperCase[k] = str[i]
        THEN LowerCase[CHOOSE k \in DOMAIN UpperCase : UpperCase[k] = str[i]]
        ELSE str[i]]

\* isspace
isSpace(c) == c \in {" ", "\t", "\n", "\r"}

\* String::trim
trim(str) ==
    IF \A i \in DOMAIN str : isSpace(str[i])
    THEN <<>>
    ELSE SubSeq(str,
                CHOOSE i \in DOMAIN str :
                    ~isSpace(str[i]) /\ \A j \in 1..(i - 1) : isSpace(str[j]),
                CHOOSE i \in DOMAIN str :
                    ~isSpace(str[i]) /\ \A j \in (i + 1)..Len(str) : isSpace(str[j]))

\* String::indexOf(char): the 0-based place of the first occurrence, or -1
indexOf(str, c) ==
    IF \E i \in DOMAIN str : str[i] = c
    THEN (CHOOSE i \in DOMAIN str : str[i] = c /\ \A j \in 1..(i - 1) : str[j] # c) - 1
    ELSE -1

\* An int passed for an unsigned int parameter of substring.  -1 converts to
\* 4294967295; substring only compares its arguments with each other and with
\* the length, and the other argument is at most the length + 2, so the
\* length + 3 stands for it.
toUnsigned(i, str) == IF i < 0 THEN Len(str) + 3 ELSE i

\* String::substring(unsigned int left, unsigned int right): swaps the
\* arguments when left > right, is empty when left is at or beyond the end,
\* and stops at the end.
substring(str, left, right) ==
    LET a == toUnsigned(left, str)
        b == toUnsigned(right, str)
        from == IF a > b THEN b ELSE a
        to == IF a > b THEN a ELSE b
    IN  IF from >= Len(str) THEN <<>>
        ELSE SubSeq(str, from + 1, IF to > Len(str) THEN Len(str) ELSE to)

\* The value of the leading decimal digits of chars, after acc
RECURSIVE leadingDigits(_, _)
leadingDigits(chars, acc) ==
    IF chars = <<>> \/ ~\E d \in DOMAIN DecimalDigits : DecimalDigits[d] = Head(chars)
    THEN acc
    ELSE leadingDigits(Tail(chars),
            acc * 10 + (CHOOSE d \in DOMAIN DecimalDigits : DecimalDigits[d] = Head(chars)) - 1)

\* String::toInt, which is atol: leading white space, an optional sign, then
\* the leading digits; 0 when there are none.
atol(str) ==
    LET s == IF \A i \in DOMAIN str : isSpace(str[i]) THEN <<>>
             ELSE SubSeq(str, CHOOSE i \in DOMAIN str :
                                ~isSpace(str[i]) /\ \A j \in 1..(i - 1) : isSpace(str[j]),
                         Len(str))
    IN  IF s = <<>> THEN 0
        ELSE IF Head(s) = "-" THEN 0 - leadingDigits(Tail(s), 0)
        ELSE IF Head(s) = "+" THEN leadingDigits(Tail(s), 0)
        ELSE leadingDigits(s, 0)

sunday == <<"s", "u", "n", "d", "a", "y">>
monday == <<"m", "o", "n", "d", "a", "y">>
tuesday == <<"t", "u", "e", "s", "d", "a", "y">>
wednesday == <<"w", "e", "d", "n", "e", "s", "d", "a", "y">>
thursday == <<"t", "h", "u", "r", "s", "d", "a", "y">>
friday == <<"f", "r", "i", "d", "a", "y">>
saturday == <<"s", "a", "t", "u", "r", "d", "a", "y">>

\* The chain of ifs that turns the weekday name into the day code
dayCodeOf(weekdayName) ==
    CASE weekdayName = saturday -> 6
      [] weekdayName = friday -> 5
      [] weekdayName = thursday -> 4
      [] weekdayName = wednesday -> 3
      [] weekdayName = tuesday -> 2
      [] weekdayName = monday -> 1
      [] weekdayName = sunday -> 0
      [] OTHER -> -1

\* The three fields commandRoombaSetDayTime cuts out of its argument
weekdayNameOf(str) == trim(substring(str, 0, indexOf(str, ",")))
hourOf(str) == trim(substring(str, indexOf(str, ",") + 1, indexOf(str, ":")))
minuteOf(str) == trim(substring(str, indexOf(str, ":") + 1, indexOf(str, ":") + 3))

\* setDayTime that writes the minute before the hour
setDayTime_minuteFirst(m, str) ==
    IF dayCodeOf(weekdayNameOf(str)) = -1 THEN m
    ELSE IF atol(hourOf(str)) < 0 \/ atol(hourOf(str)) > 24 THEN m
    ELSE IF atol(minuteOf(str)) < 0 \/ atol(minuteOf(str)) > 60 THEN m
    ELSE writeEach(m, <<128, 168, dayCodeOf(weekdayNameOf(str)),
                        atol(minuteOf(str)) % 256, atol(hourOf(str)) % 256>>, 50)

\* The validation and the writes, on the lower-cased argument
setDayTime(m, str) ==
    IF dayCodeOf(weekdayNameOf(str)) = -1 THEN m
    ELSE IF atol(hourOf(str)) < 0 \/ atol(hourOf(str)) > 24 THEN m
    ELSE IF atol(minuteOf(str)) < 0 \/ atol(minuteOf(str)) > 60 THEN m
    ELSE writeEach(m, <<128, 168, dayCodeOf(weekdayNameOf(str)),
                        atol(hourOf(str)) % 256, atol(minuteOf(str)) % 256>>, 50)

commandRoombaSetDayTime(m, roombaTimeFormattedTime) ==
    setDayTime(m, toLowerCase(roombaTimeFormattedTime))

\* The payloads the management topic setTime may carry
Payloads ==
    { sunday \o <<",", "0", "0", ":", "0", "0">>,
      monday \o <<",", "0", "9", ":", "0", "5">>,
      <<"M", "o", "N", "d", "a", "Y">> \o <<",", "0", "9", ":", "0", "5">>,
      tuesday \o <<",", "2", "3", ":", "5", "9">>,
      wednesday \o <<",", "1", "2", ":", "3", "0">>,
      thursday \o <<",", "2", "4", ":", "6", "0">>,
      friday \o <<",", "0", "7", ":", "4", "5">>,
      saturday \o <<",", "1", "0", ":", "1", "5">>,
      <<"f", "u", "n", "d", "a", "y">> \o <<",", "1", "0", ":", "1", "5">>,
      monday \o <<",", "2", "5", ":", "0", "0">>,
      monday \o <<",", "1", "0", ":", "6", "1">>,
      tuesday \o <<",", "-", "1", ":", "3", "0">>,
      monday \o <<"0", "9", ":", "0", "5">>,
      monday \o <<",", "0", "9", "0", "5">>,
      monday \o <<",", "0", "9">>,
      monday,
      monday \o <<",", "a", "b", ":", "0", "5">>,
      monday \o <<",", "0", "9", ":", "x", "y">> }

---------------------------------------------------------------------------
(* Provisioning: the EEPROM and the bootstrap document.  A String is the   *)
(* sequence of its character codes.                                        *)

trueString == <<116, 114, 117, 101>>
falseString == <<102, 97, 108, 115, 101>>

\* The EEPROM is kept as the bytes that have been written; every other
\* address holds the erased value.
EEPROMByte(e, a) == IF a \in DOMAIN e THEN e[a] ELSE 255

\* The String goes in between STX (2) and ETX (3); EEPROM.write ignores an
\* address outside the EEPROM.
EEPROMWrite(e, stringToWrite, startPosition) ==
    LET sandwiched == <<2>> \o stringToWrite \o <<3>>
        written == {a \in 0..(EEPROMLength - 1) :
                        a >= startPosition /\ a - startPosition < Len(sandwiched)}
    IN  [a \in DOMAIN e \cup written |->
            IF a \in written THEN sandwiched[a - startPosition + 1] ELSE e[a]]

\* The loop of EEPROMRead from address i on
RECURSIVE readFrom(_, _, _, _)
readFrom(e, i, isProcessingData, strReturnValue) ==
    IF i >= EEPROMLength THEN strReturnValue
    ELSE CASE EEPROMByte(e, i) = 2 -> readFrom(e, i + 1, TRUE, strReturnValue)
           [] EEPROMByte(e, i) = 3 -> strReturnValue
           [] OTHER ->
                readFrom(e, i + 1, isProcessingData,
                         IF EEPROMByte(e, i) >= 32 /\ EEPROMByte(e, i) <= 127 /\ isProcessingData
                         THEN Append(strReturnValue, EEPROMByte(e, i))
                         ELSE strReturnValue)

EEPROMRead(e, startPosition) == readFrom(e, startPosition, FALSE, <<>>)

\* JsonBuffer::parseObject(...).success(): the text is a JSON object.  Of the
\* documents followed here those are the ones that open with a brace (123),
\* close with one (125) and pair their quotes (34).
parseObjectSuccess(text) ==
    /\ Len(text) >= 2
    /\ text[1] = 123
    /\ text[Len(text)] = 125
    /\ Cardinality({i \in DOMAIN text : text[i] = 34}) % 2 = 0

\* readEEPROMToRAM, as far as the EEPROM goes: a document that does not
\* parse turns the provisioning flag to "false".
readEEPROMToRAM(e) ==
    IF ~parseObjectSuccess(EEPROMRead(e, EEPROMDataBegin))
    THEN EEPROMWrite(e, falseString, 0)
    ELSE e

checkDeviceProvisioned(e) == EEPROMRead(e, 0) = trueString

\* retrieveBootstrap: the EEPROM it leaves and the value it returns, for the
\* answer of the HTTP server (status code and body).
retrieveBootstrap(e, response) ==
    IF response.code = 200
    THEN [eeprom |-> readEEPROMToRAM(
                        EEPROMWrite(EEPROMWrite(e, response.body, EEPROMDataBegin),
                                    trueString, 0)),
          returned |-> TRUE]
    ELSE [eeprom |-> e, returned |-> FALSE]

\* Bootstrap documents: {"SSID":"n"}, {}, the same cut short, plain text,
\* nothing.
Configured == <<123, 34, 83, 83, 73, 68, 34, 58, 34, 110, 34, 125>>
Documents ==
    {Configured, <<123, 125>>, SubSeq(Configured, 1, 11), <<111, 107>>, <<>>}

\* What the HTTP server may answer to the GET of the bootstrap URL
Bootstraps == {[code |-> c, body |-> d] : c \in {200, 404}, d \in Documents}

\* The EEPROM of a device that has been provisioned
Provisioned ==
    EEPROMWrite(EEPROMWrite([a \in {} |-> 255], Configured, EEPROMDataBegin),
                trueString, 0)

---------------------------------------------------------------------------
(* What the device may answer to a poll *)

Hi(x) == (x % 65536) \div 256
Lo(x) == x % 256

\* The 26 bytes of a sensor response, in the order of the query's packet ids:
\* dirt (1), distance (2), charging state (1), voltage (2), current (2),
\* temperature (1), charge (2), capacity (2), right encoder (2),
\* left encoder (2), left, right, main-brush and side-brush motor current
\* (2 each), stasis (1).
Frame(cs, volt, cur, temp, chg, cap, enc, mot, st) ==
    <<0, 0, 0, cs, Hi(volt), Lo(volt), Hi(cur), Lo(cur), temp % 256,
      Hi(chg), Lo(chg), Hi(cap), Lo(cap), Hi(enc[1]), Lo(enc[1]),
      Hi(enc[2]), Lo(enc[2]), Hi(mot[1]), Lo(mot[1]), Hi(mot[2]), Lo(mot[2]),
      Hi(mot[3]), Lo(mot[3]), Hi(mot[4]), Lo(mot[4]), st>>

\* On the dock, charged; the other frames differ from it by deltas that
\* straddle the reporting and voting thresholds.
Docked == Frame(2, 16000, 12, 25, 2000, 2600, <<0, 0>>, <<0, 0, 0, 0>>, 0)
OffDock == Frame(0, 15800, -500, 28, 1949, 2600, <<0, 0>>, <<0, 0, 0, 0>>, 0)
Edge == Frame(4, 15799, -501, 27, 1950, 2600, <<0, 0>>, <<100, 100, 100, 100>>, 2)
Starting == Frame(0, 15799, -501, 28, 1949, 2600, <<0, 0>>, <<100, 100, 100, 100>>, 1)
Moving == Frame(0, 15799, -501, 28, 1949, 2600, <<3, 4>>, <<101, 100, 100, 100>>, 1)
Sweeping == Frame(0, 15500, -1200, 30, 1800, 2600, <<5, 7>>, <<101, 250, 300, 101>>, 1)
Braking == Frame(2, 16000, 12, 25, 2000, 2600, <<0, 0>>, <<-200, -150, -300, -1>>, 0)

\* Nothing, a response one byte short, and whole frames.
Responses == {<<>>, SubSeq(Docked, 1, 25), Docked, OffDock, Edge, Starting,
              Moving, Sweeping, Braking}

---------------------------------------------------------------------------
(* The state machine *)

ZeroData ==
    [runStatus |-> 0, odometer |-> 0, stasis |-> 0,
     startTime |-> 0, endTime |-> 0, runTime |-> 0,
     voltage |-> 0, current |-> 0, temperature |-> 0, charge |-> 0,
     capacity |-> 0, chargingState |-> "", percentRemaining |-> "",
     leftWheel |-> 0, rightWheel |-> 0, mainBrush |-> 0, sideBrush |-> 0,
     leftEncoder |-> 0, rightEncoder |-> 0]

\* What is remembered of the state a handler started from: the run status and
\* the cleaning-cycle bookkeeping, the last-reported snapshot, the clock,
\* the stored wheel encoders and the observed battery readings.
Snapshot == [runStatus |-> roombaDataObserved.runStatus,
             odometer |-> roombaDataObserved.odometer,
             startTime |-> roombaDataObserved.startTime,
             endTime |-> roombaDataObserved.endTime,
             runTime |-> roombaDataObserved.runTime,
             rep |-> roombaDataReported,
             now |-> now, last |-> sensorsLastRetrieved,
             leftEncoder |-> roombaDataObserved.leftEncoder,
             rightEncoder |-> roombaDataObserved.rightEncoder,
             voltage |-> roombaDataObserved.voltage,
             current |-> roombaDataObserved.current,
             temperature |-> roombaDataObserved.temperature,
             charge |-> roombaDataObserved.charge]

Init ==
    /\ roombaDataObserved = ZeroData
    /\ roombaDataReported = ZeroData
    /\ sensorsLastRetrieved = 0
    /\ now = SetupDelay
    /\ mqttConnected = FALSE
    /\ charSigned \in BOOLEAN
    /\ lastOp = "setup"
    /\ commandsHandled = 0
    /\ rx = <<>>
    /\ out = <<>>
    /\ published = <<>>
    /\ pre = [runStatus |-> 0, odometer |-> 0, startTime |-> 0, endTime |-> 0,
              runTime |-> 0, rep |-> ZeroData, now |-> 0, last |-> 0,
              leftEncoder |-> 0, rightEncoder |-> 0,
              voltage |-> 0, current |-> 0, temperature |-> 0, charge |-> 0]
    /\ eeprom = Provisioned
    /\ deviceIsProvisioned = TRUE

PollOps == {"reconnect", "poll", "status"}

\* The handler op ran from the current state and left the machine as m.
Leaves(m, op, available) ==
    /\ m.now <= MaxTime
    /\ commandsHandled' = IF op \in PollOps THEN commandsHandled
                                             ELSE commandsHandled + 1
    /\ roombaDataObserved' = m.obs
    /\ roombaDataReported' = m.rep
    /\ sensorsLastRetrieved' = m.last
    /\ now' = m.now
    /\ lastOp' = op
    /\ rx' = available
    /\ out' = m.out
    /\ published' = m.pub
    /\ pre' = Snapshot
    /\ UNCHANGED <<charSigned, eeprom, deviceIsProvisioned>>

\* The model follows the handlers up to MaxTime and MaxCommands device commands.
Commit(result, op, available) ==
    /\ op \in PollOps \/ commandsHandled < MaxCommands
    /\ \E m \in {result} : Leaves(m, op, available)

\* What a poll adds to millis(), whatever the device answers
PollTime == sendQuery([now |-> 0, out |-> <<>>]).now

\* loop(): not connected, so reconnectMQTT connects, announces and reports health.
ReconnectMQTT(R) ==
    /\ deviceIsProvisioned
    /\ ~mqttConnected
    /\ now + PollTime <= MaxTime
    /\ mqttConnected' = TRUE
    /\ \E available \in R :
          Commit(handleHealth(publishMQTT(Machine, "client/status", "Started"),
                              available), "reconnect", available)

\* loop() spins with nothing to do until the sensor dwell time has passed.
Idle ==
    /\ now <= sensorsLastRetrieved + sensorsUpdateFrequency
    /\ sensorsLastRetrieved + sensorsUpdateFrequency + 1 <= MaxTime
    /\ now' = sensorsLastRetrieved + sensorsUpdateFrequency + 1
    /\ lastOp' = "idle"
    /\ rx' = <<>>
    /\ out' = <<>>
    /\ published' = <<>>
    /\ pre' = Snapshot
    /\ UNCHANGED <<roombaDataObserved, roombaDataReported, sensorsLastRetrieved,
                   mqttConnected, charSigned, commandsHandled, eeprom,
                   deviceIsProvisioned>>

\* loop(): the dwell time has passed, poll the device.
LoopPoll(R) ==
    /\ mqttConnected
    /\ ULongSub(now, sensorsLastRetrieved) > sensorsUpdateFrequency
    /\ now + PollTime <= MaxTime
    /\ \E available \in R : Commit(getRoombaData(Machine, available), "poll", available)
    /\ UNCHANGED mqttConnected

\* handleMQTTManagementMessage, one action per topic
MqttStatus(R) ==
    /\ mqttConnected
    /\ now + PollTime <= MaxTime
    /\ \E available \in R : Commit(handleHealth(Machine, available), "status", available)
    /\ UNCHANGED mqttConnected

MqttClean ==
    mqttConnected /\ Commit(commandRoombaClean(Machine), "clean", <<>>)
                  /\ UNCHANGED mqttConnected

MqttDock ==
    mqttConnected /\ Commit(commandRoombaDock(Machine), "dock", <<>>)
                  /\ UNCHANGED mqttConnected

MqttStop ==
    mqttConnected /\ Commit(commandRoombaStop(Machine), "stop", <<>>)
                  /\ UNCHANGED mqttConnected

MqttResetSchedule ==
    mqttConnected /\ Commit(commandRoombaResetSchedule(Machine), "resetSchedule", <<>>)
                  /\ UNCHANGED mqttConnected

MqttRebootRoomba ==
    mqttConnected /\ Commit(commandRoombaReboot(Machine), "rebootRoomba", <<>>)
                  /\ UNCHANGED mqttConnected

MqttWake ==
    mqttConnected /\ Commit(commandRoombaWake(Machine), "wake", <<>>)
                  /\ UNCHANGED mqttConnected

\* The payload followed together with the polls and the other commands
CommonPayloads ==
    { monday \o <<",", "0", "9", ":", "0", "5">> }

\* mqttCallback trims the payload and handleMQTTManagementMessage lower-cases
\* its copy before the command sees it.
MqttSetTime(P) ==
    /\ mqttConnected
    /\ \E payload \in P :
          Commit(commandRoombaSetDayTime(Machine, toLowerCase(trim(payload))),
                 "setTime", payload)
    /\ UNCHANGED mqttConnected

Next ==
    \/ ReconnectMQTT(Responses)
    \/ Idle
    \/ LoopPoll(Responses)
    \/ MqttStatus(Responses)
    \/ MqttClean
    \/ MqttDock
    \/ MqttStop
    \/ MqttResetSchedule
    \/ MqttRebootRoomba
    \/ MqttWake
    \/ MqttSetTime(CommonPayloads)

Spec == Init /\ [][Next]_vars

---------------------------------------------------------------------------
(* Properties *)

\* The last handler polled the device.
Polled == lastOp \in PollOps

\* The last handler polled the device and found a whole frame.
ValidFrame == Polled /\ Len(rx) = 26

\* The vote count toggleCleaningMode computed from the frame just decoded
Votes == voteForCleaningMode(roombaDataObserved)

\* How many messages the last handler published on topic
Count(topic) == Cardinality({i \in DOMAIN published : published[i][1] = topic})

\* The last handler took the run status into, or out of, CLEANING.
Entered == pre.runStatus # CLEANING /\ roombaDataObserved.runStatus = CLEANING
Ended == pre.runStatus = CLEANING /\ roombaDataObserved.runStatus = IDLING

\* C1: the run status is always one of SLEEPING, CLEANING, IDLING, and it is
\* SLEEPING before any poll or command has run.
C1_RunStatusRange ==
    /\ roombaDataObserved.runStatus \in {0, 1, 2}
    /\ lastOp = "setup" => roombaDataObserved.runStatus = 0

C1_Witness ==
    /\ Polled
    /\ pre.runStatus = 2
    /\ roombaDataObserved.runStatus = 1

\* C2: a valid frame with at least 4 votes, met while the run status is not
\* CLEANING, leaves the run status CLEANING, the cycle start and end time at
\* the time of the transition, the run time 0 and the odometer 0.
C2_BeginOnFourVotes ==
    (ValidFrame /\ Votes >= 4 /\ pre.runStatus # 1) =>
        /\ roombaDataObserved.runStatus = 1
        /\ roombaDataObserved.startTime = now
        /\ now = pre.now + PollTime
        /\ roombaDataObserved.endTime = roombaDataObserved.startTime
        /\ roombaDataObserved.runTime = 0
        /\ roombaDataObserved.odometer = 0

C2_Witness ==
    /\ ValidFrame
    /\ Votes = 4
    /\ pre.runStatus = 2
    /\ roombaDataObserved.runStatus = 1
    /\ roombaDataObserved.startTime = now

\* C3: a valid frame with at most 1 vote, met while the run status is
\* CLEANING, leaves the run status IDLING, the cycle end time at the time of
\* the transition, the run time at end - start, and the odometer as it was.
C3_EndOnOneVote ==
    (ValidFrame /\ Votes <= 1 /\ pre.runStatus = 1) =>
        /\ roombaDataObserved.runStatus = 2
        /\ roombaDataObserved.endTime = now
        /\ now = pre.now + PollTime
        /\ roombaDataObserved.startTime = pre.startTime
        /\ roombaDataObserved.runTime
             = roombaDataObserved.endTime - roombaDataObserved.startTime
        /\ roombaDataObserved.odometer = pre.odometer

C3_Witness ==
    /\ ValidFrame
    /\ Votes = 1
    /\ pre.runStatus = 1
    /\ roombaDataObserved.runStatus = 2
    /\ roombaDataObserved.runTime > 0

\* C4: a valid frame with 2 or 3 votes causes no vote-driven transition:
\* CLEANING stays CLEANING, IDLING stays IDLING, and the cycle start, end and
\* run time and the odometer are as they were.
C4_HysteresisBand ==
    (ValidFrame /\ Votes \in {2, 3}) =>
        /\ pre.runStatus = 1 => roombaDataObserved.runStatus = 1
        /\ pre.runStatus = 2 => roombaDataObserved.runStatus = 2
        /\ roombaDataObserved.startTime = pre.startTime
        /\ roombaDataObserved.endTime = pre.endTime
        /\ roombaDataObserved.runTime = pre.runTime
        /\ roombaDataObserved.odometer = pre.odometer

C4_Witness ==
    /\ ValidFrame
    /\ Votes = 3
    /\ pre.runStatus = 1
    /\ roombaDataObserved.runStatus = 1
    /\ roombaDataObserved.startTime > 0

\* C5: a poll that finds a receive buffer of any length but 26 sets the run
\* status to SLEEPING and changes nothing else of the observed and the
\* last-reported data: no field is decoded and the odometer stays.
C5_WrongLengthSleeps ==
    [][(lastOp' \in PollOps /\ Len(rx') # 26) =>
          /\ roombaDataObserved' = [roombaDataObserved EXCEPT !.runStatus = 0]
          /\ roombaDataReported' = [roombaDataReported EXCEPT !.runStatus = 0]]_vars

C5_Witness ==
    /\ Polled
    /\ Len(rx) = 25
    /\ pre.runStatus = 1
    /\ roombaDataObserved.runStatus = 0
    /\ roombaDataObserved.voltage > 0

\* C6: a valid frame met while SLEEPING leaves the run status IDLING when it
\* has fewer than 4 votes and CLEANING when it has 4 or more, never SLEEPING.
C6_ValidFrameWakes ==
    (ValidFrame /\ pre.runStatus = 0) =>
        roombaDataObserved.runStatus = (IF Votes < 4 THEN 2 ELSE 1)

C6_Witness ==
    /\ ValidFrame
    /\ pre.runStatus = 0
    /\ Votes = 3
    /\ roombaDataObserved.runStatus = 2

\* The 16-bit two's-complement reading of two frame bytes
Signed16(high, low) ==
    IF high * 256 + low >= 32768 THEN high * 256 + low - 65536 ELSE high * 256 + low

\* The seven conditions on a frame, each one vote
SevenConditions(frame) ==
      Vote(Buf(frame, 3) \in {0, 4})
    + Vote(Signed16(Buf(frame, 6), Buf(frame, 7)) < -500)
    + Vote(Signed16(Buf(frame, 17), Buf(frame, 18)) > 100)
    + Vote(Signed16(Buf(frame, 19), Buf(frame, 20)) > 100)
    + Vote(Signed16(Buf(frame, 21), Buf(frame, 22)) > 100)
    + Vote(Signed16(Buf(frame, 23), Buf(frame, 24)) > 100)
    + Vote(Buf(frame, 25) = 1)

\* C7: the vote count of a frame is the number of the seven conditions that
\* hold of it, the motor currents read as signed 16-bit values.
C7_VoteCount == ValidFrame => Votes = SevenConditions(rx)

\* C8: the odometer is 0 after every entry into CLEANING, and a handler that
\* does not enter CLEANING never lowers it.
C8_Odometer ==
    /\ Entered => roombaDataObserved.odometer = 0
    /\ ~Entered => roombaDataObserved.odometer >= pre.odometer

C8_Witness ==
    /\ Entered
    /\ pre.startTime > 0
    /\ roombaDataObserved.startTime > pre.startTime
    /\ roombaDataObserved.odometer = 0

\* C9: sensor/runTime and sensor/odometer are published once each, with the
\* cycle's run time and odometer, by the handler that takes the run status
\* from CLEANING to IDLING, and by no other handler.
C9_CompletionEvents ==
    /\ Count("sensor/runTime") = (IF Ended THEN 1 ELSE 0)
    /\ Count("sensor/odometer") = (IF Ended THEN 1 ELSE 0)
    /\ Ended => \E i \in DOMAIN published :
                  /\ i + 1 \in DOMAIN published
                  /\ published[i] = <<"sensor/runTime",
                                      ToString(roombaDataObserved.runTime)>>
                  /\ published[i + 1] = <<"sensor/odometer",
                                          ToString(roombaDataObserved.odometer)>>

C9_Witness ==
    /\ Ended
    /\ Count("sensor/runTime") = 1
    /\ Count("sensor/odometer") = 1
    /\ roombaDataObserved.runTime > 0

\* What the delta filter published on topic: a health report publishes every
\* sensor topic once more after the poll, whatever the filter did.
FilterCount(topic) ==
    Count(topic) - (IF lastOp \in {"reconnect", "status"} THEN 1 ELSE 0)

\* C10: the filter publishes voltage, current, temperature and charge exactly
\* when the observed value is more than 200, 512, 2 and 50 away from the
\* last-reported one.
C10_DeltaFilter ==
    ValidFrame =>
        /\ FilterCount("sensor/batteryVoltage")
             = Vote(Abs(roombaDataObserved.voltage - pre.rep.voltage) > 200)
        /\ FilterCount("sensor/batteryCurrent")
             = Vote(Abs(roombaDataObserved.current - pre.rep.current) > 512)
        /\ FilterCount("sensor/batteryTemperature")
             = Vote(Abs(roombaDataObserved.temperature - pre.rep.temperature) > 2)
        /\ FilterCount("sensor/batteryCharge")
             = Vote(Abs(roombaDataObserved.charge - pre.rep.charge) > 50)

\* One frame with a voltage exactly 200 away, not published, and a
\* temperature 3 away, published.
C10_Witness ==
    /\ ValidFrame
    /\ Abs(roombaDataObserved.voltage - pre.rep.voltage) = 200
    /\ FilterCount("sensor/batteryVoltage") = 0
    /\ Abs(roombaDataObserved.temperature - pre.rep.temperature) = 3
    /\ FilterCount("sensor/batteryTemperature") = 1

\* The same with the voltage 201 away, published, and the charge exactly 50
\* away, not published.
C10_WitnessOver ==
    /\ ValidFrame
    /\ Abs(roombaDataObserved.voltage - pre.rep.voltage) = 201
    /\ FilterCount("sensor/batteryVoltage") = 1
    /\ Abs(roombaDataObserved.charge - pre.rep.charge) = 50
    /\ FilterCount("sensor/batteryCharge") = 0

\* The last-reported value a filter evaluation leaves in one channel: the
\* observed value when it published on topic, the former value when not.
Kept(topic, observed, former) ==
    IF FilterCount(topic) = 1 THEN observed ELSE former

\* C11: a filter evaluation sets the last-reported value of every channel it
\* publishes to the observed value and leaves the last-reported value of
\* every channel it suppresses as it was.
C11_ReportedFollowsPublish ==
    ValidFrame =>
        /\ \A topic \in {"sensor/batteryVoltage", "sensor/batteryCurrent",
                         "sensor/batteryTemperature", "sensor/batteryCharge",
                         "sensor/batteryPercentage", "sensor/chargingState"} :
              FilterCount(topic) \in {0, 1}
        /\ roombaDataReported.voltage
             = Kept("sensor/batteryVoltage", roombaDataObserved.voltage, pre.rep.voltage)
        /\ roombaDataReported.current
             = Kept("sensor/batteryCurrent", roombaDataObserved.current, pre.rep.current)
        /\ roombaDataReported.temperature
             = Kept("sensor/batteryTemperature", roombaDataObserved.temperature,
                    pre.rep.temperature)
        /\ roombaDataReported.charge
             = Kept("sensor/batteryCharge", roombaDataObserved.charge, pre.rep.charge)
        /\ roombaDataReported.percentRemaining
             = Kept("sensor/batteryPercentage", roombaDataObserved.percentRemaining,
                    pre.rep.percentRemaining)
        /\ roombaDataReported.chargingState
             = Kept("sensor/chargingState", roombaDataObserved.chargingState,
                    pre.rep.chargingState)

\* A frame whose current is suppressed, leaving a last-reported current that
\* differs from the observed one, and whose temperature is published.
C11_Witness ==
    /\ ValidFrame
    /\ FilterCount("sensor/batteryCurrent") = 0
    /\ roombaDataReported.current = pre.rep.current
    /\ roombaDataReported.current # roombaDataObserved.current
    /\ FilterCount("sensor/batteryTemperature") = 1
    /\ roombaDataReported.temperature = roombaDataObserved.temperature
    /\ roombaDataReported.temperature # pre.rep.temperature

\* C12: the delta filter run again on the snapshot it has just filtered
\* publishes nothing and changes no state.
C12_FilterIdempotent ==
    ValidFrame => reportRoombaSensorChanges(Machine) = Machine

\* The first evaluation published a channel and suppressed another whose
\* observed value still differs from the last-reported one.
C12_Witness ==
    /\ ValidFrame
    /\ FilterCount("sensor/batteryTemperature") = 1
    /\ FilterCount("sensor/batteryVoltage") = 0
    /\ roombaDataObserved.voltage # roombaDataReported.voltage
    /\ reportRoombaSensorChanges(Machine).pub = <<>>

\* C13: sensor/chargingState is published by a filter evaluation exactly when
\* the observed charging state differs from the last-reported one, and
\* sensor/runStatus is published by setRunStatus exactly when the run status
\* changes: once, with the new status, by a call that changes it, and by no
\* handler that leaves the run status as it was.
C13_CategoricalOnChange ==
    /\ ValidFrame =>
          FilterCount("sensor/chargingState")
            = Vote(roombaDataObserved.chargingState # pre.rep.chargingState)
    /\ \A runStatus \in {0, 1, 2} :
          /\ setRunStatus(Machine, runStatus).obs.runStatus = runStatus
          /\ setRunStatus(Machine, runStatus).pub
               = IF runStatus # roombaDataObserved.runStatus
                 THEN << <<"sensor/runStatus",
                           <<"SLEEPING", "CLEANING", "IDLING">>[runStatus + 1]>> >>
                 ELSE <<>>
    /\ FilterCount("sensor/runStatus") = 0
          <=> roombaDataObserved.runStatus = pre.runStatus

\* A frame that changes both the charging state and the run status
C13_Witness ==
    /\ ValidFrame
    /\ pre.rep.chargingState = "CHARGING_FULL"
    /\ roombaDataObserved.chargingState = "NOT_CHARGING"
    /\ FilterCount("sensor/chargingState") = 1
    /\ pre.runStatus = 2
    /\ roombaDataObserved.runStatus = 1
    /\ FilterCount("sensor/runStatus") = 1

\* A frame that changes neither
C13_WitnessUnchanged ==
    /\ ValidFrame
    /\ pre.rep.chargingState = roombaDataObserved.chargingState
    /\ FilterCount("sensor/chargingState") = 0
    /\ pre.runStatus = 1
    /\ roombaDataObserved.runStatus = 1
    /\ FilterCount("sensor/runStatus") = 0

\* C14: after a valid frame the observed percent-remaining is the integer
\* percentage of the decoded charge over the decoded capacity, and a decoded
\* capacity or percent-remaining that differs from its last-reported value by
\* more than its delta is published and becomes the last-reported value.
\* (The firmware configures no delta for the capacity; a difference above
\* every delta it does configure, the largest being 512, is taken.)
C14_CapacityAndPercent ==
    ValidFrame =>
        /\ toInt(roombaDataObserved.percentRemaining)
             = (roombaDataObserved.charge * 100) \div roombaDataObserved.capacity
        /\ Abs(roombaDataObserved.capacity - pre.rep.capacity) > 512 =>
              /\ roombaDataReported.capacity = roombaDataObserved.capacity
              /\ FilterCount("sensor/batteryCapacity") = 1
        /\ Abs((roombaDataObserved.charge * 100) \div roombaDataObserved.capacity
                 - toInt(pre.rep.percentRemaining)) > 1 =>
              FilterCount("sensor/batteryPercentage") = 1

\* The part of C14 about the capacity alone
C14_CapacityReported ==
    (ValidFrame /\ Abs(roombaDataObserved.capacity - pre.rep.capacity) > 512) =>
        roombaDataReported.capacity = roombaDataObserved.capacity

\* What a handler did to the device, in order, without the times
Actuation(o) == [i \in DOMAIN o |-> <<o[i][1], o[i][2]>>]

\* The actuation of writing the given bytes to the device, one after another
Tx(bytes) == [i \in DOMAIN bytes |-> <<"tx", bytes[i]>>]

\* The wake pulse: the wake pin LOW, then HIGH
Pulse == << <<"pin", 0>>, <<"pin", 1>> >>

\* C15: stop writes the bytes 128, 131, 133 to the device when the run status
\* is CLEANING and leaves the run status alone; with any other run status it
\* writes nothing, publishes nothing and changes no state.
C15_StopOnlyWhenCleaning ==
    [][lastOp' = "stop" =>
          IF roombaDataObserved.runStatus = 1
          THEN /\ Actuation(out') = Tx(<<128, 131, 133>>)
               /\ UNCHANGED <<roombaDataObserved, roombaDataReported>>
          ELSE /\ out' = <<>>
               /\ published' = <<>>
               /\ UNCHANGED <<roombaDataObserved, roombaDataReported,
                              sensorsLastRetrieved, now>>]_vars

C15_Witness ==
    /\ lastOp = "stop"
    /\ pre.runStatus = 2
    /\ out = <<>>
    /\ roombaDataObserved.runStatus = 2

\* stop while CLEANING
C15_WitnessCleaning ==
    /\ lastOp = "stop"
    /\ pre.runStatus = 1
    /\ Actuation(out) = Tx(<<128, 131, 133>>)

\* C18: reboot writes the bytes 128, 7 to the device and leaves the run
\* status SLEEPING, whatever it was before.
C18_RebootSleeps ==
    lastOp = "rebootRoomba" =>
        /\ Actuation(out) = Tx(<<128, 7>>)
        /\ roombaDataObserved.runStatus = 0

\* The part of C18 about the bytes alone
C18_RebootBytes ==
    lastOp = "rebootRoomba" => Actuation(out) = Tx(<<128, 7>>)

\* C19: wake pulses the wake pin, LOW then HIGH, when the run status is
\* SLEEPING and leaves the run status IDLING; with any other run status it
\* does nothing to the device, publishes nothing and changes no state.
C19_WakeOnlyWhenSleeping ==
    [][lastOp' = "wake" =>
          IF roombaDataObserved.runStatus = 0
          THEN /\ Actuation(out') = Pulse
               /\ roombaDataObserved' = [roombaDataObserved EXCEPT !.runStatus = 2]
               /\ roombaDataReported' = [roombaDataReported EXCEPT !.runStatus = 2]
          ELSE /\ out' = <<>>
               /\ published' = <<>>
               /\ UNCHANGED <<roombaDataObserved, roombaDataReported,
                              sensorsLastRetrieved, now>>]_vars

C19_Witness ==
    /\ lastOp = "wake"
    /\ pre.runStatus = 0
    /\ Actuation(out) = Pulse
    /\ roombaDataObserved.runStatus = 2

\* wake while CLEANING
C19_WitnessAwake ==
    /\ lastOp = "wake"
    /\ pre.runStatus = 1
    /\ out = <<>>
    /\ roombaDataObserved.runStatus = 1

\* C20: clean and dock pulse the wake pin first exactly when the run status
\* is SLEEPING, and then, whatever the run status, write their three bytes in
\* order: 128, 131, 135 for clean and 128, 131, 143 for dock.
C20_CleanDockWakeFirst ==
    /\ lastOp = "clean" =>
          Actuation(out) = (IF pre.runStatus = 0 THEN Pulse ELSE <<>>)
                              \o Tx(<<128, 131, 135>>)
    /\ lastOp = "dock" =>
          Actuation(out) = (IF pre.runStatus = 0 THEN Pulse ELSE <<>>)
                              \o Tx(<<128, 131, 143>>)

C20_Witness ==
    /\ lastOp = "dock"
    /\ pre.runStatus = 0
    /\ Actuation(out) = Pulse \o Tx(<<128, 131, 143>>)

\* clean while SLEEPING, and clean while CLEANING
C20_WitnessClean ==
    /\ lastOp = "clean"
    /\ pre.runStatus = 0
    /\ Actuation(out) = Pulse \o Tx(<<128, 131, 135>>)

C20_WitnessAwake ==
    /\ lastOp = "clean"
    /\ pre.runStatus = 1
    /\ Actuation(out) = Tx(<<128, 131, 135>>)

\* C21 as stated: the run status right after a clean command equals the run
\* status right before it.
C21_CleanKeepsRunStatus ==
    lastOp = "clean" => roombaDataObserved.runStatus = pre.runStatus

\* C21: clean never makes the run status CLEANING: the run status right after
\* the command is the one right before it, except that the wake clean performs
\* first when SLEEPING leaves it IDLING; the cleaning cycle's start, end and
\* run time are as before.
C21_CleanNeverBeginsCycle ==
    lastOp = "clean" =>
        /\ roombaDataObserved.runStatus = (IF pre.runStatus = 0 THEN 2 ELSE pre.runStatus)
        /\ roombaDataObserved.startTime = pre.startTime
        /\ roombaDataObserved.endTime = pre.endTime
        /\ roombaDataObserved.runTime = pre.runTime

C21_Witness ==
    /\ lastOp = "clean"
    /\ pre.runStatus = 2
    /\ roombaDataObserved.runStatus = 2
    /\ Actuation(out) = Tx(<<128, 131, 135>>)

\* clean while SLEEPING
C21_WitnessSleeping ==
    /\ lastOp = "clean"
    /\ pre.runStatus = 0
    /\ roombaDataObserved.runStatus = 2

\* C22: resetSchedule writes, whatever the run status, the bytes 128, 167
\* and then exactly 15 bytes of value 0, and changes neither the observed nor
\* the last-reported data.
C22_ResetScheduleBytes ==
    [][lastOp' = "resetSchedule" =>
          /\ Actuation(out') = Tx(<<128, 167>> \o [i \in 1..15 |-> 0])
          /\ published' = <<>>
          /\ UNCHANGED <<roombaDataObserved, roombaDataReported, sensorsLastRetrieved>>]_vars

C22_Witness ==
    /\ lastOp = "resetSchedule"
    /\ pre.runStatus = 0
    /\ Len(out) = 17
    /\ Actuation(out) = Tx(<<128, 167, 0, 0, 0, 0, 0, 0, 0, 0, 0, 0, 0, 0, 0, 0, 0>>)

\* resetSchedule while CLEANING
C22_WitnessCleaning ==
    /\ lastOp = "resetSchedule"
    /\ pre.runStatus = 1
    /\ roombaDataObserved.runStatus = 1
    /\ Len(out) = 17

\* The times at which a handler wrote its bytes to the device, in order
TxTimes(o) ==
    LET tx == SelectSeq(o, LAMBDA e : e[1] = "tx")
    IN  [i \in DOMAIN tx |-> tx[i][3]]

\* Consecutive bytes of o are at least gap milliseconds apart.
Spaced(o, gap) ==
    \A i \in 1..(Len(TxTimes(o)) - 1) : TxTimes(o)[i + 1] - TxTimes(o)[i] >= gap

\* C23: in every byte sequence a command or a poll writes to the device,
\* consecutive bytes are at least 50 ms apart.
C23_InterByteDelay == Len(TxTimes(out)) >= 2 => Spaced(out, 50)

\* The part of C23 about every handler but resetSchedule
C23_OthersSpaced ==
    (Len(TxTimes(out)) >= 2 /\ lastOp # "resetSchedule") => Spaced(out, 50)

\* What resetSchedule does keep: 50 ms after the first byte, 10 ms after the rest
C23_ResetScheduleSpacing ==
    lastOp = "resetSchedule" =>
        /\ TxTimes(out)[2] - TxTimes(out)[1] = 50
        /\ \A i \in 2..16 : TxTimes(out)[i + 1] - TxTimes(out)[i] = 10

\* C24: a poll is issued no sooner than the sensor dwell time after the poll
\* before it was issued, whatever triggers it.  (A poll stamps
\* settings.sensors.lastRetrieved PollTime after it was issued.)
C24_PollDwell ==
    (Polled /\ pre.last > 0) => pre.now - (pre.last - PollTime) >= 2000

\* The part of C24 about the main loop's timer: it polls only when more than
\* the dwell time has passed since the last poll ended.
C24_LoopTimerDwell ==
    lastOp = "poll" => pre.now - pre.last > 2000

\* The raw encoder counts of the frame just read
rawRightEncoder == combineBytesToUnsignedInt(Buf(rx, 13), Buf(rx, 14))
rawLeftEncoder == combineBytesToUnsignedInt(Buf(rx, 15), Buf(rx, 16))

\* C28: after a valid frame the stored encoders are the frame's raw encoder
\* counts, and the odometer has grown by the distance computed from them
\* (unless a cleaning cycle began and cleared it).
C28_EncodersFollowFrame ==
    ValidFrame =>
        /\ roombaDataObserved.rightEncoder = rawRightEncoder
        /\ roombaDataObserved.leftEncoder = rawLeftEncoder
        /\ \/ Entered
           \/ roombaDataObserved.odometer
                 = pre.odometer + round(milliMillimetres(averageDistanceOf(
                       computeEncoderDistance(rawLeftEncoder, pre.leftEncoder),
                       computeEncoderDistance(rawRightEncoder, pre.rightEncoder))))

\* What a valid frame does to them: the raw counts are added to the stored
\* ones, and the odometer is left alone.
C28_EncodersAccumulate ==
    ValidFrame =>
        /\ roombaDataObserved.rightEncoder = (pre.rightEncoder + rawRightEncoder) % 65536
        /\ roombaDataObserved.leftEncoder = (pre.leftEncoder + rawLeftEncoder) % 65536
        /\ Entered \/ roombaDataObserved.odometer = pre.odometer

\* The readings a frame carries
Readings ==
    {"chargingState", "voltage", "current", "temperature", "charge", "capacity",
     "rightEncoder", "leftEncoder", "leftWheel", "rightWheel", "mainBrush",
     "sideBrush", "stasis"}

\* C32: the readings decoded from a valid frame depend on the frame's bytes
\* only: they are the ones the same bytes give from the initial state.
C32_DecodeOfBytesOnly ==
    ValidFrame =>
        \A f \in Readings : roombaDataObserved[f] = decodeFrame(ZeroData, rx)[f]

\* The same with the two encoder readings left out
C32_DecodeButEncoders ==
    ValidFrame =>
        \A f \in Readings \ {"rightEncoder", "leftEncoder"} :
            roombaDataObserved[f] = decodeFrame(ZeroData, rx)[f]

\* C33: the observed and the last-reported run status are equal in every
\* reachable state.
C33_RunStatusInStep ==
    roombaDataObserved.runStatus = roombaDataReported.runStatus

\* A handler changed the run status, and both copies hold the new one.
C33_Witness ==
    /\ roombaDataObserved.runStatus # pre.runStatus
    /\ pre.rep.runStatus = pre.runStatus
    /\ roombaDataObserved.runStatus = CLEANING
    /\ roombaDataReported.runStatus = CLEANING

\* C34: the run status becomes CLEANING only in a poll that read a valid
\* frame with at least 4 votes; no command leaves the run status CLEANING
\* unless it found it so.
C34_CleaningOnlyByVote ==
    /\ Entered => ValidFrame /\ Votes >= 4
    /\ lastOp \notin PollOps /\ roombaDataObserved.runStatus = CLEANING
          => pre.runStatus = CLEANING

\* The clean command was handled while not CLEANING, and the run status is
\* still not CLEANING.
C34_Witness ==
    /\ lastOp = "clean"
    /\ pre.runStatus = IDLING
    /\ roombaDataObserved.runStatus = IDLING

\* A poll did enter CLEANING.
C34_WitnessPoll ==
    Entered /\ ValidFrame /\ Votes >= 4

\* The last handler published neither the run time nor the odometer and left
\* the end time and the run time of the cycle as they were.
NoCompletion ==
    /\ Count("sensor/runTime") = 0
    /\ Count("sensor/odometer") = 0
    /\ roombaDataObserved.endTime = pre.endTime
    /\ roombaDataObserved.runTime = pre.runTime

\* C35: a wrong-length response met while CLEANING leaves the run status
\* SLEEPING with no completion event and no end time or duration recorded;
\* a valid frame with fewer than 4 votes met while SLEEPING leaves the run
\* status IDLING, again with no completion event.
C35_InterruptedCycleUnreported ==
    /\ (Polled /\ Len(rx) # 26 /\ pre.runStatus = CLEANING)
          => roombaDataObserved.runStatus = SLEEPING /\ NoCompletion
    /\ (ValidFrame /\ pre.runStatus = SLEEPING /\ Votes < 4)
          => roombaDataObserved.runStatus = IDLING /\ NoCompletion

\* A cycle had begun and never ended when the robot was found asleep, and
\* the valid frame read now leaves it IDLING.
C35_Witness ==
    /\ ValidFrame /\ Votes < 4
    /\ pre.runStatus = SLEEPING
    /\ pre.startTime > 0 /\ pre.endTime = pre.startTime
    /\ roombaDataObserved.runStatus = IDLING
    /\ NoCompletion

\* The wrong-length response that interrupts the cycle
C35_WitnessInterrupted ==
    /\ Polled /\ Len(rx) # 26
    /\ pre.runStatus = CLEANING
    /\ roombaDataObserved.runStatus = SLEEPING

\* C36: a poll of the loop's timer publishes at most one sensor/runStatus
\* message; one that finds the robot SLEEPING and reads a valid frame with at
\* least 4 votes publishes CLEANING only.
C36_OneRunStatusPerPoll ==
    lastOp = "poll" =>
        /\ Count("sensor/runStatus") <= 1
        /\ (ValidFrame /\ pre.runStatus = SLEEPING /\ Votes >= 4)
              => \A i \in DOMAIN published :
                    published[i][1] = "sensor/runStatus" => published[i][2] = "CLEANING"

\* What such a poll publishes: IDLING, then CLEANING.
C36_IdlingThenCleaning ==
    (lastOp = "poll" /\ ValidFrame /\ pre.runStatus = SLEEPING /\ Votes >= 4) =>
        SelectSeq(published, LAMBDA p : p[1] = "sensor/runStatus")
            = << <<"sensor/runStatus", "IDLING">>, <<"sensor/runStatus", "CLEANING">> >>

\* Any other poll of the loop's timer publishes at most one run status.
C36_OtherPollsOnce ==
    (lastOp = "poll" /\ ~(ValidFrame /\ pre.runStatus = SLEEPING /\ Votes >= 4)) =>
        Count("sensor/runStatus") <= 1

\* C37: after a filter evaluation each of voltage, current, temperature and
\* charge is reported within its delta of the observed value, and the
\* reported charging state is the observed one.
C37_ReportedWithinDelta ==
    ValidFrame =>
        /\ Abs(roombaDataObserved.voltage - roombaDataReported.voltage) <= 200
        /\ Abs(roombaDataObserved.current - roombaDataReported.current) <= 512
        /\ Abs(roombaDataObserved.temperature - roombaDataReported.temperature) <= 2
        /\ Abs(roombaDataObserved.charge - roombaDataReported.charge) <= 50
        /\ roombaDataReported.chargingState = roombaDataObserved.chargingState

\* The voltage is exactly its delta away from the reported one, while the
\* charge moved by more than its delta and was reported.
C37_Witness ==
    /\ ValidFrame
    /\ Abs(roombaDataObserved.voltage - roombaDataReported.voltage) = 200
    /\ Abs(roombaDataObserved.charge - pre.rep.charge) > 50
    /\ roombaDataReported.charge = roombaDataObserved.charge

\* A channel whose observation moved by a step no larger than its delta is
\* published exactly when it is more than the delta away from the value
\* last published, and the value it is compared with next is the one last
\* published: its own if it was published now, the earlier one if not.
DriftPublished(seen, before, reported, kept, delta, topic) ==
    Abs(seen - before) <= delta =>
        /\ FilterCount(topic) = Vote(Abs(seen - reported) > delta)
        /\ kept = IF FilterCount(topic) = 1 THEN seen ELSE reported

\* C38: the filter compares each observation with the last published value,
\* not with the previous observation: a channel drifting in steps no larger
\* than its delta is published at the first poll where it is more than the
\* delta away from the last published value.
C38_DriftAccumulates ==
    ValidFrame =>
        /\ DriftPublished(roombaDataObserved.voltage, pre.voltage,
                          pre.rep.voltage,
                          roombaDataReported.voltage, 200, "sensor/batteryVoltage")
        /\ DriftPublished(roombaDataObserved.current, pre.current,
                          pre.rep.current,
                          roombaDataReported.current, 512, "sensor/batteryCurrent")
        /\ DriftPublished(roombaDataObserved.temperature, pre.temperature,
                          pre.rep.temperature,
                          roombaDataReported.temperature, 2, "sensor/batteryTemperature")
        /\ DriftPublished(roombaDataObserved.charge, pre.charge,
                          pre.rep.charge,
                          roombaDataReported.charge, 50, "sensor/batteryCharge")

\* The voltage has drifted 200 and then 1: the second step is published.
C38_Witness ==
    /\ ValidFrame
    /\ pre.rep.voltage = 16000 /\ pre.voltage = 15800
    /\ roombaDataObserved.voltage = 15799
    /\ FilterCount("sensor/batteryVoltage") = 1
    /\ roombaDataReported.voltage = 15799

\* The first step of the drift: within the delta, not published.
C38_WitnessHeld ==
    /\ ValidFrame
    /\ pre.rep.voltage = 16000 /\ pre.voltage = 16000
    /\ roombaDataObserved.voltage = 15800
    /\ FilterCount("sensor/batteryVoltage") = 0
    /\ roombaDataReported.voltage = 16000

---------------------------------------------------------------------------
(* The set-day-time command alone, over every payload, once connected *)

NextSetTime ==
    \/ ReconnectMQTT(Responses)
    \/ MqttSetTime(Payloads)

SpecSetTime == Init /\ [][NextSetTime]_vars

---------------------------------------------------------------------------
(* Properties of the set-day-time command *)

\* The weekday names in the order of their day codes, Sunday first
WeekdayNames == <<sunday, monday, tuesday, wednesday, thursday, friday, saturday>>

\* Two decimal digits, and the number they write
TwoDigits(s) ==
    Len(s) = 2 /\ \A i \in 1..2 : \E d \in DOMAIN DecimalDigits : DecimalDigits[d] = s[i]
NumberOf(s) ==
    10 * ((CHOOSE d \in DOMAIN DecimalDigits : DecimalDigits[d] = s[1]) - 1)
       + (CHOOSE d \in DOMAIN DecimalDigits : DecimalDigits[d] = s[2]) - 1

\* payload is weekday,hh:mm with its ',' at place c: a weekday name in any
\* letter case, an hour in 0..24 and a minute in 0..60
Shaped(payload, c) ==
    /\ c \in DOMAIN payload
    /\ payload[c] = ","
    /\ Len(payload) = c + 5
    /\ payload[c + 3] = ":"
    /\ \E k \in DOMAIN WeekdayNames :
          toLowerCase(SubSeq(payload, 1, c - 1)) = WeekdayNames[k]
    /\ TwoDigits(SubSeq(payload, c + 1, c + 2))
    /\ TwoDigits(SubSeq(payload, c + 4, c + 5))
    /\ NumberOf(SubSeq(payload, c + 1, c + 2)) <= 24
    /\ NumberOf(SubSeq(payload, c + 4, c + 5)) <= 60

WellFormed(payload) == \E c \in DOMAIN payload : Shaped(payload, c)

\* The bytes a well-formed payload stands for
DayTimeBytes(payload) ==
    LET c == CHOOSE c \in DOMAIN payload : Shaped(payload, c)
    IN  <<128, 168,
          (CHOOSE k \in DOMAIN WeekdayNames :
              toLowerCase(SubSeq(payload, 1, c - 1)) = WeekdayNames[k]) - 1,
          NumberOf(SubSeq(payload, c + 1, c + 2)),
          NumberOf(SubSeq(payload, c + 4, c + 5))>>

\* C16: setTime writes no byte to the device for a payload that is not
\* weekday,hh:mm with a weekday name, an hour in 0..24 and a minute in 0..60.
C16_InvalidPayloadSilent ==
    (lastOp = "setTime" /\ ~WellFormed(rx)) => out = <<>>

\* The payloads of C16 that the command does refuse
C16_Refused ==
    (lastOp = "setTime"
       /\ rx \in { <<"f", "u", "n", "d", "a", "y">> \o <<",", "1", "0", ":", "1", "5">>,
                   monday \o <<",", "2", "5", ":", "0", "0">>,
                   monday \o <<",", "1", "0", ":", "6", "1">>,
                   tuesday \o <<",", "-", "1", ":", "3", "0">>,
                   monday \o <<"0", "9", ":", "0", "5">>,
                   monday \o <<",", "0", "9", "0", "5">> })
    => out = <<>>

\* C17: for a payload weekday,hh:mm with a weekday name in any letter case,
\* an hour in 0..24 and a minute in 0..60, setTime writes 128, 168 and then
\* the day code (Sunday 0 to Saturday 6), the hour and the minute, in this
\* order and nothing else.
C17_ValidPayloadBytes ==
    (lastOp = "setTime" /\ WellFormed(rx)) => Actuation(out) = Tx(DayTimeBytes(rx))

C17_Witness ==
    /\ lastOp = "setTime"
    /\ rx = monday \o <<",", "0", "9", ":", "0", "5">>
    /\ Actuation(out) = Tx(<<128, 168, 1, 9, 5>>)

\* A weekday in mixed letter case, and the largest hour and minute
C17_WitnessMixedCase ==
    /\ lastOp = "setTime"
    /\ rx = <<"M", "o", "N", "d", "a", "Y">> \o <<",", "0", "9", ":", "0", "5">>
    /\ Actuation(out) = Tx(<<128, 168, 1, 9, 5>>)

C17_WitnessLargest ==
    /\ lastOp = "setTime"
    /\ rx = thursday \o <<",", "2", "4", ":", "6", "0">>
    /\ Actuation(out) = Tx(<<128, 168, 4, 24, 60>>)

---------------------------------------------------------------------------
(* The odometer arithmetic alone: observeEncoders over encoder readings *)

\* Encoder readings either side of the 16-bit ceiling and of its half
EncoderValues == {1, 2, 10, 50, 100, 40000, 65530}

\* observeEncoders(leftEncoder, rightEncoder) with a pair of readings
ObserveEncoders(E) ==
    /\ \E leftEncoder \in E, rightEncoder \in E :
          Commit(observeEncoders(Machine, leftEncoder, rightEncoder),
                 "observeEncoders", <<leftEncoder, rightEncoder>>)
    /\ UNCHANGED mqttConnected

NextEncoders == ObserveEncoders(EncoderValues)

SpecEncoders == Init /\ [][NextEncoders]_vars

---------------------------------------------------------------------------
(* Properties of the odometer arithmetic *)

Observed == lastOp = "observeEncoders"

\* The two distances the last observeEncoders computed, as it broadcast them
distanceLeftEncoder == out[1][2]
distanceRightEncoder == out[2][2]

\* The rule of the encoder distance, in unbounded integers
RuleDistance(current, previous) ==
    IF previous + current > 65535 THEN (65535 - previous) + current
                                  ELSE current - previous

\* C25: computeEncoderDistance(current, previous) returns the value of the
\* rollover rule, which is the forward tick distance and lies in 0..65535.
C25_EncoderDistanceRule ==
    Observed =>
        /\ distanceLeftEncoder = RuleDistance(rx[1], pre.leftEncoder)
        /\ distanceRightEncoder = RuleDistance(rx[2], pre.rightEncoder)
        /\ RuleDistance(rx[1], pre.leftEncoder) \in 0..65535
        /\ RuleDistance(rx[2], pre.rightEncoder) \in 0..65535

\* The examples of C25: from 65530 to 10 is 15 ticks, from 50 to 100 is 50.
C25_Examples ==
    Observed =>
        /\ (rx[1] = 10 /\ pre.leftEncoder = 65530) => distanceLeftEncoder = 15
        /\ (rx[1] = 100 /\ pre.leftEncoder = 50) => distanceLeftEncoder = 50

\* The value computeEncoderDistance does return: the rule's value kept to 16 bits
C25_EncoderDistanceWraps ==
    Observed =>
        /\ distanceLeftEncoder = RuleDistance(rx[1], pre.leftEncoder) % 65536
        /\ distanceRightEncoder = RuleDistance(rx[2], pre.rightEncoder) % 65536

\* C26: an encoder that has not moved has distance 0, and each wheel's
\* distance depends on that wheel's two readings only.
C26_UnmovedIsZero ==
    Observed =>
        /\ rx[1] = pre.leftEncoder => distanceLeftEncoder = 0
        /\ rx[2] = pre.rightEncoder => distanceRightEncoder = 0

\* The part of C26 about independence: each distance is the function of its
\* own wheel's readings.
C26_WheelsIndependent ==
    Observed =>
        /\ distanceLeftEncoder = computeEncoderDistance(rx[1], pre.leftEncoder)
        /\ distanceRightEncoder = computeEncoderDistance(rx[2], pre.rightEncoder)

\* round(mean * pi * 69 / 508.8) with the mean of the two distances exact
ExactMeanMillimetres(left, right) ==
    (milliMillimetres(left + right) + 1000) \div 2000

\* C27: observeEncoders adds to the odometer the rounded millimetres of the
\* exact mean of the two distances, and stores the readings as the previous ones.
C27_OdometerExactMean ==
    Observed =>
        /\ roombaDataObserved.odometer
              = pre.odometer + ExactMeanMillimetres(distanceLeftEncoder,
                                                    distanceRightEncoder)
        /\ roombaDataObserved.leftEncoder = rx[1]
        /\ roombaDataObserved.rightEncoder = rx[2]

\* What observeEncoders does add: the mean is truncated to whole ticks first.
C27_OdometerTruncatedMean ==
    Observed =>
        /\ roombaDataObserved.odometer
              = pre.odometer + round(milliMillimetres(
                    (distanceLeftEncoder + distanceRightEncoder) \div 2))
        /\ roombaDataObserved.leftEncoder = rx[1]
        /\ roombaDataObserved.rightEncoder = rx[2]

---------------------------------------------------------------------------
(* Frame decoding alone: the first poll, over every pair of bytes *)

\* A whole frame with byte high as the charging state, the pair (high, low)
\* as the voltage (unsigned) and as the current (signed), and byte low as the
\* temperature
DecodeFrames ==
    { [Docked EXCEPT ![4] = high, ![5] = high, ![6] = low, ![7] = high, ![8] = low,
                     ![9] = low]
        : high \in 0..255, low \in 0..255 }

NextDecode == ReconnectMQTT(DecodeFrames)

SpecDecode == Init /\ [][NextDecode]_vars

---------------------------------------------------------------------------
(* Properties of frame decoding *)

\* C29: the unsigned decoder returns (high << 8) | low, in 0..65535, and the
\* signed decoder the two's-complement reading of the same sixteen bits.
C29_CombineBytes ==
    ValidFrame =>
        /\ roombaDataObserved.voltage = rx[5] * 256 + rx[6]
        /\ roombaDataObserved.voltage \in 0..65535
        /\ roombaDataObserved.current
              = IF rx[7] * 256 + rx[8] >= 32768 THEN rx[7] * 256 + rx[8] - 65536
                                                ELSE rx[7] * 256 + rx[8]

\* Both bytes have their top bit set and char is signed.
C29_Witness ==
    /\ ValidFrame /\ charSigned
    /\ rx[5] = 200 /\ rx[6] = 129
    /\ roombaDataObserved.voltage = 51329
    /\ roombaDataObserved.current = -14207

C29_WitnessUnsignedChar ==
    /\ ValidFrame /\ ~charSigned
    /\ rx[7] = 255 /\ rx[8] = 255
    /\ roombaDataObserved.current = -1

\* The names of the charging states 0..5
ChargingStateNames ==
    <<"NOT_CHARGING", "CHARGING_RECONDITIONING", "CHARGING_FULL",
      "CHARGING_TRICKLE", "WAITING", "FAULT">>

\* C30: the charging-state byte 0..5 maps to its name and every other byte
\* to UNKNOWN, and the poll that read it completes: the frame is decoded, the
\* poll is timestamped and the robot counts as awake.
C30_ChargingStateTotal ==
    ValidFrame =>
        /\ roombaDataObserved.chargingState
              = IF rx[4] \in 0..5 THEN ChargingStateNames[rx[4] + 1] ELSE "UNKNOWN"
        /\ sensorsLastRetrieved = now
        /\ roombaDataObserved.runStatus # SLEEPING

C30_Witness ==
    ValidFrame /\ rx[4] = 5 /\ roombaDataObserved.chargingState = "FAULT"

C30_WitnessUnknown ==
    /\ ValidFrame /\ charSigned /\ rx[4] = 200
    /\ roombaDataObserved.chargingState = "UNKNOWN"
    /\ sensorsLastRetrieved = now

\* C31: the temperature is the signed 8-bit reading of frame byte 8, in
\* -128..127, for every byte value.
C31_TemperatureSigned ==
    ValidFrame =>
        /\ roombaDataObserved.temperature = IF rx[9] >= 128 THEN rx[9] - 256 ELSE rx[9]
        /\ roombaDataObserved.temperature \in -128..127

\* What the assignment from the plain char does: the signed reading where
\* char is signed, the byte's own value 0..255 where char is unsigned.
C31_TemperatureAsChar ==
    ValidFrame =>
        roombaDataObserved.temperature
            = IF charSigned /\ rx[9] >= 128 THEN rx[9] - 256 ELSE rx[9]

---------------------------------------------------------------------------
(* Provisioning alone: the bootstrap and provision-reset messages, the web *)
(* form of the provisioning mode, and the restarts between them            *)

\* ESP.restart() and setup(): memory starts over, and the EEPROM e decides
\* whether the device comes up provisioned.
Restart(e) ==
    /\ roombaDataObserved' = ZeroData
    /\ roombaDataReported' = ZeroData
    /\ sensorsLastRetrieved' = 0
    /\ now' = SetupDelay
    /\ mqttConnected' = FALSE
    /\ deviceIsProvisioned' = checkDeviceProvisioned(e)
    /\ eeprom' = IF checkDeviceProvisioned(e) THEN readEEPROMToRAM(e) ELSE e

\* handleMQTTManagementMessage, topic bootstrap with a URL as the payload;
\* rx is the body the HTTP server answered with.
MqttBootstrap(B) ==
    /\ mqttConnected
    /\ commandsHandled < MaxCommands
    /\ \E response \in B :
        LET r == retrieveBootstrap(eeprom, response)
        IN  /\ eeprom' = r.eeprom
            /\ published' = << <<"client/status",
                                 IF r.returned THEN "Bootstrap Requested"
                                               ELSE "Bootstrap Failed">> >>
            /\ rx' = response.body
    /\ lastOp' = "bootstrap"
    /\ out' = <<>>
    /\ pre' = Snapshot
    /\ commandsHandled' = commandsHandled + 1
    /\ UNCHANGED <<roombaDataObserved, roombaDataReported, sensorsLastRetrieved,
                   now, mqttConnected, charSigned, deviceIsProvisioned>>

\* handleMQTTManagementMessage, topic provisionReset with payload "request"
MqttProvisionReset ==
    /\ mqttConnected
    /\ commandsHandled < MaxCommands
    /\ published' = << <<"client/status", "Provision Reset">> >>
    /\ Restart(EEPROMWrite(eeprom, falseString, 0))
    /\ lastOp' = "provisionReset"
    /\ rx' = <<>>
    /\ out' = <<>>
    /\ pre' = Snapshot
    /\ commandsHandled' = commandsHandled + 1
    /\ UNCHANGED charSigned

\* wwwHandleSubmit and attemptProvision, once the WiFi network is joined: the
\* bootstrap is retrieved and the device restarts whatever came of it.
WebProvision(B) ==
    /\ ~deviceIsProvisioned
    /\ commandsHandled < MaxCommands
    /\ \E response \in B :
          /\ Restart(retrieveBootstrap(eeprom, response).eeprom)
          /\ rx' = response.body
    /\ published' = <<>>
    /\ lastOp' = "provision"
    /\ out' = <<>>
    /\ pre' = Snapshot
    /\ commandsHandled' = commandsHandled + 1
    /\ UNCHANGED charSigned

NextProvision ==
    \/ ReconnectMQTT({<<>>, Docked})
    \/ MqttBootstrap(Bootstraps)
    \/ MqttProvisionReset
    \/ WebProvision(Bootstraps)

SpecProvision == Init /\ [][NextProvision]_vars

---------------------------------------------------------------------------
(* Properties of provisioning *)

\* The bootstrap message was answered with the status of a success.
BootstrapSucceeded ==
    lastOp = "bootstrap" /\ published = << <<"client/status", "Bootstrap Requested">> >>

\* C39: whenever retrieveBootstrap returned true and the success status was
\* published, the provisioning flag of the EEPROM reads "true", so that the
\* device comes up provisioned after the next restart.
C39_SuccessMeansProvisioned ==
    BootstrapSucceeded => checkDeviceProvisioned(eeprom)

\* What the flag is after such a success: "true" if the document retrieved
\* is a JSON object, "false" if it is not.
C39_FlagFollowsDocument ==
    BootstrapSucceeded =>
        EEPROMRead(eeprom, 0) = IF parseObjectSuccess(rx) THEN trueString
                                                          ELSE falseString

\* A bootstrap that failed leaves the flag "true" if it was; the device that
\* runs the MQTT loop came up with the flag "true".
C39_FailureKeepsFlag ==
    (lastOp = "bootstrap" /\ ~BootstrapSucceeded /\ commandsHandled = 1)
        => checkDeviceProvisioned(eeprom)

=============================================================================
